---- MODULE Spec2Model ----
(***************************************************************************)
(* Model of apnsd.py: the control-socket Listener, the two PersistentQueue *)
(* instances (push queue and feedback queue) with their SQLite tables, the *)
(* pool of APNSAgent threads with their APNSRecentNotifications windows,   *)
(* and process death / reboot on the same store.                           *)
(***************************************************************************)
EXTENDS Integers, Sequences, FiniteSets, TLC

\* ---------------------------------------------------------------- bounds
\* Largest value of the wall clock now().
MaxNow == 2
\* Largest notification id assigned (the model's guard refuses a send whose
\* batch would pass it).
MaxId == 1
\* Largest number of device tokens in one send request.
MaxBatch == 2
\* Largest number of records on the feedback queue (the gateway's error
\* frames with status 8 are held back by the model's guard beyond it).
MaxFeedback == 1

\* ------------------------------------------------- constants and config
DEVTOKLEN == 32
PAYLOADMAXLEN == 256
MAXTRIAL == 2
INVALIDTOKENSTATUS == 8
\* Largest [apns] push_concurrency.
MaxAgents == 2
\* Largest value of the clock of a recent-notification window taken alone.
MaxWindowNow == 3
\* Largest number of consecutive empty polls of an idle agent taken alone.
MaxPolls == 4
MaxDials == 3
MaxTuples == 2
MaxSessions == 2
MaxPuts == 2
MaxQClock == 3
\* [apns] push_max_notification_lag
apns_push_max_notif_lag == 1
\* [apns] push_max_error_wait, in units of 1/600 s (so that 600 * wait is
\* a whole number of seconds)
apns_push_max_error_wait == 1
\* [apns] device_token_format
apns_devtok_format == "hex"
apns_feedback_freq == 1

Agents == 0 .. (MaxAgents - 1)
Ids == 0 .. MaxId
\* The identities of the 32-byte device tokens that occur.
Tokens == {"t1", "t2"}
\* Python's None where a text is expected, where an object is expected
\* (Null), as the reply when nothing was sent (NoReply), and as the row of
\* an empty ident table (NoRow).
None == "None"
Null == [null |-> TRUE]
NoReply == <<>>
NoRow == -1

\* ------------------------------------------------------------ token text
\* A binary token: which token it is and how many bytes it has.
BinTok(t, n) == [tok |-> t, len |-> n]

\* A token as text: 64 hex digits ("hex"), 64 characters that are not all
\* hex digits ("badhex"), well-formed base64 of declen bytes ("b64"), or
\* text base64 decoding rejects ("badb64").
TokText(f, t, n) == [form |-> f, tok |-> t, declen |-> n]

TokTexts ==
    {TokText("hex", "t1", DEVTOKLEN), TokText("b64", "t2", DEVTOKLEN),
     TokText("b64", "t1", 3), TokText("badb64", "t1", 0),
     TokText("badhex", "t1", DEVTOKLEN)}

\* len(dt)
TextLen(dt) ==
    IF dt.form \in {"hex", "badhex"} THEN 2 * dt.declen
    ELSE 4 * ((dt.declen + 2) \div 3)

\* base64.standard_b64encode(devtok)
B64Encode(bin) == TokText("b64", bin.tok, bin.len)

\* base64.standard_b64decode(devtok) of well-formed text
B64Decode(dt) == BinTok(dt.tok, dt.declen)

\* The text "unknown" that _reallyprocesserror uses for an id it cannot
\* resolve: it encodes no token.
unknown == TokText("literal", "unknown", 0)

\* DeviceTokenFormater.__call__
devtokfmt(bin) ==
    IF apns_devtok_format = "base64" THEN B64Encode(bin)
    ELSE TokText("hex", bin.tok, bin.len)

\* ---------------------------------------------------------------- expiry
Digits == {"0", "1", "2", "6"}
DigitVal(c) == CASE c = "0" -> 0 [] c = "1" -> 1 [] c = "2" -> 2 [] c = "6" -> 6

\* Whether int(s) succeeds on the text s (a sequence of characters).
IsDecimal(s) == Len(s) > 0 /\ \A k \in 1 .. Len(s) : s[k] \in Digits

RECURSIVE IntOf(_)
IntOf(s) ==
    IF Len(s) = 0 THEN 0
    ELSE 10 * IntOf(SubSeq(s, 1, Len(s) - 1)) + DigitVal(s[Len(s)])

\* Listener._parse_expiry: [ok, value]; ok is FALSE when int() raises.
parse_expiry(expiry, clock) ==
    LET nsub == IF Len(expiry) > 0 /\ expiry[1] = "+" THEN 1 ELSE 0
        rest == IF nsub = 1 THEN SubSeq(expiry, 2, Len(expiry)) ELSE expiry
    IN  IF ~IsDecimal(rest) THEN [ok |-> FALSE, value |-> 0]
        ELSE [ok |-> TRUE,
              value |-> IF nsub = 1 THEN clock + IntOf(rest) ELSE IntOf(rest)]

\* The <expiry> words a client sends.
ExpiryTexts ==
    {<<"+", "1">>, <<"+", "6", "0">>, <<"0">>, <<"0", "1">>, <<"0", "x">>,
     <<"x">>}

\* ------------------------------------------------------------- requests
PayloadLens == {5, PAYLOADMAXLEN + 1}

TokLists == UNION {[1 .. n -> TokTexts] : n \in 0 .. MaxBatch}

\* A request on the control socket. A payload is modelled by its length.
SendRequests ==
    [cmd : {"send"}, expiry : ExpiryTexts, devtoks : TokLists,
     payload : PayloadLens]

\* Decoding of one token text as in the loop of APNSListener._parse_send:
\* [exc, devtok]; exc is "ValueError" (int(c, 16)), "TypeError" (base64) or
\* None.
DecodeTok(dt) ==
    IF TextLen(dt) = DEVTOKLEN * 2
    THEN IF dt.form = "hex"
         THEN [exc |-> None, devtok |-> BinTok(dt.tok, DEVTOKLEN)]
         ELSE [exc |-> "ValueError", devtok |-> BinTok(dt.tok, 0)]
    ELSE IF dt.form = "b64"
         THEN [exc |-> None, devtok |-> B64Decode(dt)]
         ELSE [exc |-> "TypeError", devtok |-> BinTok(dt.tok, 0)]

\* The token loop of APNSListener._parse_send: the first bad token decides.
RECURSIVE CheckToks(_, _)
CheckToks(devtoks, goodtoks) ==
    IF devtoks = <<>> THEN [error |-> None, devtoks |-> goodtoks]
    ELSE LET d == DecodeTok(Head(devtoks))
         IN  IF d.exc = "ValueError"
             THEN [error |-> "Invalid input", devtoks |-> <<>>]
             ELSE IF d.exc = "TypeError"
             THEN [error |-> "Wrong base64 encoding", devtoks |-> <<>>]
             ELSE IF d.devtok.len # DEVTOKLEN
             THEN [error |-> "Wrong device token length", devtoks |-> <<>>]
             ELSE CheckToks(Tail(devtoks),
                            Append(goodtoks, B64Encode(d.devtok)))

\* What APNSListener._parse_send hands to _parse_expiry: Listener._parse_send
\* returns the expiry word itself as arglist, so arglist[0] is its first
\* character.
ExpiryArg(word) == SubSeq(word, 1, 1)

\* APNSListener._parse_send with the handling of its exceptions in
\* Listener.run: error is the text of the ERROR reply, or None.
parse_send(msg, clock) ==
    LET e == parse_expiry(ExpiryArg(msg.expiry), clock)
        t == CheckToks(msg.devtoks, <<>>)
    IN  IF ~e.ok
        THEN [error |-> "Invalid expiry value", expiry |-> 0,
              devtoks |-> <<>>, payload |-> 0]
        ELSE IF t.error # None
        THEN [error |-> t.error, expiry |-> 0, devtoks |-> <<>>,
              payload |-> 0]
        ELSE IF msg.payload > PAYLOADMAXLEN
        THEN [error |-> "Invalid input", expiry |-> 0, devtoks |-> <<>>,
              payload |-> 0]
        ELSE [error |-> None, expiry |-> e.value, devtoks |-> t.devtoks,
              payload |-> msg.payload]

\* ------------------------------------------------------ persistent queue
\* str(item) as stored in the data column, and eval() of it.
StrItem(item) == [repr |-> item]
EvalData(data) == data.repr

Row(rowid, item) == [rowid |-> rowid, data |-> StrItem(item)]

\* sqlite's rowid for an INSERT: one more than the largest rowid in the
\* table, 1 for an empty table.
NextRowid(rows) ==
    IF rows = {} THEN 1
    ELSE 1 + (CHOOSE m \in {r.rowid : r \in rows} :
                  \A r \in rows : r.rowid <= m)

\* SELECT rowid, data ... ORDER BY rowid, appended to the deque.
RECURSIVE LoadRows(_)
LoadRows(rows) ==
    IF rows = {} THEN <<>>
    ELSE LET r == CHOOSE x \in rows : \A y \in rows : x.rowid <= y.rowid
         IN  <<(<<r.rowid, EvalData(r.data)>>)>> \o LoadRows(rows \ {r})

\* PersistentQueue._put: [rows, queue]
QPut(rows, queue, item) ==
    LET rowid == NextRowid(rows)
    IN  [rows |-> rows \cup {Row(rowid, item)},
         queue |-> Append(queue, <<rowid, item>>)]

\* _get without its DELETE: the row stays in the table.
QGetKeepsRow(rows, queue) ==
    LET r == Head(queue)
    IN  [rows |-> rows, queue |-> Tail(queue), item |-> r[2]]

\* _get with pop() for popleft(): the newest item leaves first.
QGetNewest(rows, queue) ==
    LET r == queue[Len(queue)]
    IN  [rows |-> {x \in rows : x.rowid # r[1]},
         queue |-> SubSeq(queue, 1, Len(queue) - 1),
         item |-> r[2]]

\* _get reading queue[0] without removing it.
QGetPeek(rows, queue) ==
    LET r == Head(queue)
    IN  [rows |-> rows, queue |-> queue, item |-> r[2]]

\* PersistentQueue._get on a non-empty queue: [rows, queue, item]
QGet(rows, queue) ==
    LET r == Head(queue)
    IN  [rows |-> {x \in rows : x.rowid # r[1]},
         queue |-> Tail(queue),
         item |-> r[2]]

\* ------------------------------------------------------------ notification
\* The tuple put on the push queue by _perform_send.
Notif(ident, creation, expiry, devtok, payload) ==
    [ident |-> ident, creation |-> creation, expiry |-> expiry,
     devtok |-> devtok, payload |-> payload]

\* ------------------------------------------------- recent notifications
\* A dict as a set of <<key, value>> pairs, one pair per key.
DictGet(d, k) ==
    IF \E p \in d : p[1] = k THEN (CHOOSE p \in d : p[1] = k)[2] ELSE Null

DictSet(d, k, v) == {p \in d : p[1] # k} \cup {<<k, v>>}

\* APNSRecentNotifications.__init__: self.rotatetime for a maxerrorwait
rotatetimeFor(maxerrorwait) ==
    IF maxerrorwait # 0
    THEN (600 * maxerrorwait) \div 600
    ELSE 10

\* self.rotatetime of the windows of the agents of the pool
rotatetime == rotatetimeFor(apns_push_max_error_wait)

\* APNSRecentNotifications.__init__
Window(maxerrorwait, clock) ==
    [n |-> <<{}, {}>>, i |-> 0, tstamp |-> clock,
     rotatetime |-> rotatetimeFor(maxerrorwait)]

\* APNSRecentNotifications.__init__; n[1], n[2] are Python's n[0], n[1].
NewWindow(clock) == Window(apns_push_max_error_wait, clock)

\* APNSRecentNotifications._rotate
rotate(w, clock) ==
    IF clock - w.tstamp >= w.rotatetime
    THEN LET i == (w.i + 1) % 2
         IN  [w EXCEPT !.n[i + 1] = {}, !.i = i, !.tstamp = clock]
    ELSE w

\* APNSRecentNotifications.record
record(w, ident, notification, clock) ==
    LET r == rotate(w, clock)
    IN  [r EXCEPT !.n[r.i + 1] = DictSet(@, ident, notification)]

\* APNSRecentNotifications.lookup: [w, n]. The name i in "(i + 1) % 2" is
\* not a local of lookup: it is the module's global i, the loop variable of
\* "for i in range(apns_push_concurrency)"; globali is its value.
lookup(w, ident, clock, globali) ==
    LET r == rotate(w, clock)
        i0 == r.i
        i1 == (globali + 1) % 2
        n0 == DictGet(r.n[i0 + 1], ident)
    IN  [w |-> r,
         n |-> IF n0 = Null THEN DictGet(r.n[i1 + 1], ident) ELSE n0]

\* ------------------------------------------------------- error responses
\* The keys of APNSAgent._error_responses.
error_responses == (0 .. 8) \cup {255}

\* The status bytes the gateway is taken to send.
GwStatuses == {1, INVALIDTOKENSTATUS, 10}

Frame(st, id) == [kind |-> "frame", st |-> st, id |-> id]
NoFrame(k) == [kind |-> k, st |-> 0, id |-> 0]

\* What self.sock.recv() gives the error handler: a 6-byte error frame, a
\* buffer of another size, an empty buffer, or socket.error.
RecvOutcomes ==
    {Frame(s, x) : s \in GwStatuses, x \in Ids}
        \cup {NoFrame(k) : k \in {"badsize", "eof", "sockerr"}}

\* Whether o makes the error handler put a record on the feedback queue.
PutsFeedback(o) == o.kind = "frame" /\ o.st = INVALIDTOKENSTATUS

\* A feedback record as put on the feedback queue.
Feedback(ts, devtok) == [ts |-> ts, devtok |-> devtok]

\* APNSAgent._reallyprocesserror on the recv outcome o:
\* [w, put, raised]: the window after the lookup, the record put on the
\* feedback queue (or Null), and whether logging.warning raised KeyError on
\* _error_responses[st].
reallyprocesserror(w, o, clock, globali) ==
    IF o.kind # "frame" THEN [w |-> w, put |-> Null, raised |-> FALSE]
    ELSE LET l == lookup(w, o.id, clock, globali)
             errdevtok == IF l.n = Null THEN unknown ELSE devtokfmt(l.n)
         IN  IF o.st \notin error_responses
             THEN [w |-> l.w, put |-> Null, raised |-> TRUE]
             ELSE IF o.st = INVALIDTOKENSTATUS
             THEN [w |-> l.w, put |-> Feedback(0, errdevtok),
                   raised |-> FALSE]
             ELSE [w |-> l.w, put |-> Null, raised |-> FALSE]

\* The handler without its call of _close.
processerrorOpen(sk, w, o, clock, globali) ==
    [sock |-> sk] @@ reallyprocesserror(w, o, clock, globali)

\* APNSAgent._processerror of an agent whose socket is sk: what
\* _reallyprocesserror gives, and the socket the agent holds afterwards:
\* none once _close has run, its socket still when KeyError went through
\* _processerror before _close.
processerror(sk, w, o, clock, globali) ==
    LET r == reallyprocesserror(w, o, clock, globali)
    IN  [sock |-> IF r.raised THEN sk ELSE "none"] @@ r

\* ----------------------------------------------------------- the replies
\* Listener._send_ok
send_ok(res) == IF Len(res) = 0 THEN <<"OK">> ELSE <<"OK", res>>

\* Listener._send_error
send_error(msg) == <<"ERROR", msg>>

\* Listener.run's "_send_ok(res)" after _perform_send and _perform_feedback:
\* the bare name is neither a local nor a global, so the call raises
\* NameError and nothing is sent. [raised, reply]
run_send_ok(res) == [raised |-> TRUE, reply |-> NoReply]

\* ================================================================ state
VARIABLES
    \* the SQLite store (survives the process)
    identCur,       \* table ident: its one row's cur, or NoRow
    notifRows,      \* table notifications: set of rows
    feedbackRows,   \* table feedback: set of rows
    \* the wall clock
    now,
    \* the process: main thread and Listener.run
    lpc,            \* "down", "exited", "boot", "recv", "err", "perform",
                    \* "put", "drain"
    concurrency,    \* apns_push_concurrency, from the configuration
    globali,        \* the module's global i (-1: not bound yet)
    curid,          \* APNSListener.curid
    lreq,           \* the parsed send being performed
    idlist,         \* _perform_send's idlist
    feedbacks,      \* _perform_feedback's feedbacks
    errmsg,         \* the ERROR text about to be sent
    apnsq,          \* apns_pushq.queue (the deque)
    feedbackq,      \* apns_feedbackq.queue
    \* the push agents
    apc,            \* "off", "get", "send", "wait", "dead"
    sock,           \* APNSAgent.sock: "none" or "open"
    cur,            \* the notification the agent holds, or Null
    trial,          \* the send loop's trial
    rn,             \* APNSAgent.recentnotifications
    \* history (not program state)
    reply,          \* the control socket: Pending when a request was
                    \* received and not answered yet, else the last reply
                    \* sent since boot (<<"ERROR">> or <<"OK", res>>), or
                    \* NoReply
    reqInvalid,     \* the pending request breaks the grammar of a send
    lastBatch,      \* the send performed last since boot: its ids and
                    \* the reply sent for it
    lastIssued,     \* the largest id attached to a notification, or -1
    interrupted,    \* the process died inside a batch after lastIssued
    putLog,         \* the ids put on the push queue, in order
    getLog,         \* [agent, ident] per get on the push queue, in order
    pulledAt,       \* per agent: now() when it dequeued the item it holds
    written,        \* per agent: the ids of the frames written, in order
    crashInflight,  \* ids held by an agent, unwritten, when the process died
    lastErr,        \* the last status-8 frame handled: what the window held
                    \* for its id and what was put on the feedback queue
    dropLog,        \* [ident, why]: the notifications an agent pulled too
                    \* late ("late") or failed to write twice ("failed")
    \* one function or object of the program taken alone
    call,           \* the call under study: its name and its inputs
    ret             \* what it returned, or NoRet

store == <<identCur, notifRows, feedbackRows>>
listener ==
    <<lpc, concurrency, globali, curid, lreq, idlist, feedbacks, errmsg>>
queues == <<apnsq, feedbackq>>
agents == <<apc, sock, cur, trial, rn>>
reqhist == <<reply, reqInvalid, lastBatch>>
idhist == <<lastIssued, interrupted, putLog>>
agenthist == <<getLog, pulledAt, written, lastErr>>
funs == <<call, ret>>
main ==
    <<store, now, listener, queues, agents, reqhist, idhist, agenthist,
      crashInflight, dropLog>>
vars == <<main, funs>>

Pending == <<"pending">>
NoReq == [expiry |-> 0, devtoks |-> <<>>, payload |-> 0]
NoBatch == [ids |-> <<>>, reply |-> NoReply, done |-> FALSE]
NoErr == [held |-> Null, put |-> Null]
NoCall == [f |-> "none"]
NoRet == [done |-> FALSE]

\* A fresh store, and the process at the line before the threads start
\* (the queues are constructed, no thread runs yet), with push_concurrency
\* k.
InitWith(k) ==
    /\ concurrency = k
    /\ identCur = NoRow
    /\ notifRows = {}
    /\ feedbackRows = {}
    /\ now = 0
    /\ lpc = "boot"
    /\ globali = -1
    /\ curid = 0
    /\ lreq = NoReq
    /\ idlist = <<>>
    /\ feedbacks = <<>>
    /\ errmsg = None
    /\ apnsq = <<>>
    /\ feedbackq = <<>>
    /\ apc = [a \in Agents |-> "off"]
    /\ sock = [a \in Agents |-> "none"]
    /\ cur = [a \in Agents |-> Null]
    /\ trial = [a \in Agents |-> 0]
    /\ rn = [a \in Agents |-> NewWindow(0)]
    /\ reply = NoReply
    /\ reqInvalid = FALSE
    /\ lastBatch = NoBatch
    /\ lastIssued = -1
    /\ interrupted = FALSE
    /\ putLog = <<>>
    /\ getLog = <<>>
    /\ pulledAt = [a \in Agents |-> 0]
    /\ written = [a \in Agents |-> <<>>]
    /\ crashInflight = {}
    /\ lastErr = NoErr
    /\ dropLog = {}

Init == InitWith(1) /\ call = NoCall /\ ret = NoRet

Up == lpc \notin {"down", "exited"}

\* ----------------------------------------------------------------- clock
Tick ==
    /\ UNCHANGED <<funs, dropLog>>
    /\ now < MaxNow
    /\ now' = now + 1
    /\ UNCHANGED <<store, listener, queues, agents, reqhist, idhist,
                   agenthist, crashInflight>>

\* ------------------------------------------------------------------ boot
\* One turn of "for i in range(apns_push_concurrency)": APNSAgent(...)
\* and t.start().
StartAgent ==
    /\ UNCHANGED <<funs, dropLog>>
    /\ lpc = "boot"
    /\ globali + 1 < concurrency
    /\ globali' = globali + 1
    /\ apc' = [apc EXCEPT ![globali + 1] = "get"]
    /\ rn' = [rn EXCEPT ![globali + 1] = NewWindow(now)]
    /\ UNCHANGED <<store, now, lpc, concurrency, curid, lreq, idlist,
                   feedbacks, errmsg, queues, sock, cur, trial, reqhist,
                   idhist, agenthist, crashInflight>>

\* t.run() of the APNSListener on the main thread, up to Listener.run's
\* first recv: read the id counter, creating its row when there is none.
StartListener ==
    /\ UNCHANGED <<funs, dropLog>>
    /\ lpc = "boot"
    /\ globali + 1 >= concurrency
    /\ identCur' = IF identCur = NoRow THEN 0 ELSE identCur
    /\ curid' = identCur'
    /\ lpc' = "recv"
    /\ UNCHANGED <<notifRows, feedbackRows, now, concurrency, globali, lreq,
                   idlist, feedbacks, errmsg, queues, agents, reqhist,
                   idhist, agenthist, crashInflight>>

\* The process stops: every thread's state is gone, the store stays.
Stopped(how) ==
    /\ lpc' = how
    /\ globali' = -1
    /\ curid' = 0
    /\ lreq' = NoReq
    /\ idlist' = <<>>
    /\ feedbacks' = <<>>
    /\ errmsg' = None
    /\ apnsq' = <<>>
    /\ feedbackq' = <<>>
    /\ apc' = [a \in Agents |-> "off"]
    /\ sock' = [a \in Agents |-> "none"]
    /\ cur' = [a \in Agents |-> Null]
    /\ trial' = [a \in Agents |-> 0]
    /\ rn' = [a \in Agents |-> NewWindow(0)]
    /\ pulledAt' = [a \in Agents |-> 0]
    /\ crashInflight' = {cur[a].ident : a \in {x \in Agents : cur[x] # Null}}
    /\ interrupted' = (interrupted \/ (lpc = "put" /\ lreq.devtoks # <<>>))
    /\ lastErr' = NoErr
    /\ UNCHANGED <<store, now, concurrency, lastIssued, putLog, getLog,
                   written>>

\* The process is killed (or the machine stops) at any point.
Crash ==
    /\ UNCHANGED <<funs, dropLog>>
    /\ Up
    /\ Stopped("down")
    /\ reply' = NoReply
    /\ reqInvalid' = FALSE
    /\ lastBatch' = NoBatch

\* The process is started again on the same store: main's construction of
\* the two PersistentQueue objects, up to the line before the threads start.
Boot ==
    /\ UNCHANGED <<funs, dropLog>>
    /\ ~Up
    /\ lpc' = "boot"
    /\ apnsq' = LoadRows(notifRows)
    /\ feedbackq' = LoadRows(feedbackRows)
    /\ reply' = NoReply
    /\ reqInvalid' = FALSE
    /\ lastBatch' = NoBatch
    /\ UNCHANGED <<store, now, concurrency, globali, curid, lreq, idlist,
                   feedbacks, errmsg, agents, idhist, agenthist,
                   crashInflight>>

\* -------------------------------------------------------------- listener
\* The grammar of a send request: <expiry> is a decimal integer, with or
\* without a leading "+"; every token decodes to DEVTOKLEN bytes; the
\* payload has at most PAYLOADMAXLEN bytes.
ExpiryWellFormed(word) ==
    IsDecimal(IF Len(word) > 0 /\ word[1] = "+"
              THEN SubSeq(word, 2, Len(word)) ELSE word)

TokWellFormed(dt) == dt.form \in {"hex", "b64"} /\ dt.declen = DEVTOKLEN

SendWellFormed(msg) ==
    /\ ExpiryWellFormed(msg.expiry)
    /\ \A k \in 1 .. Len(msg.devtoks) : TokWellFormed(msg.devtoks[k])
    /\ msg.payload <= PAYLOADMAXLEN

\* Listener.run: recv of a "send ..." message and _parse_send.
LRecvSend(msg) ==
    /\ UNCHANGED <<funs, dropLog>>
    /\ lpc = "recv"
    /\ LET p == parse_send(msg, now)
       IN  /\ p.error = None => curid + Len(p.devtoks) <= MaxId + 1
           /\ IF p.error # None
              THEN /\ lpc' = "err"
                   /\ errmsg' = p.error
                   /\ lreq' = lreq
              ELSE /\ lpc' = "perform"
                   /\ errmsg' = errmsg
                   /\ lreq' = [expiry |-> p.expiry, devtoks |-> p.devtoks,
                               payload |-> p.payload]
    /\ reply' = Pending
    /\ reqInvalid' = ~SendWellFormed(msg)
    /\ UNCHANGED <<store, now, concurrency, globali, curid, idlist,
                   feedbacks, queues, agents, lastBatch, idhist, agenthist,
                   crashInflight>>

\* Listener.run: recv of a "feedback" message.
LRecvFeedback ==
    /\ UNCHANGED <<funs, dropLog>>
    /\ lpc = "recv"
    /\ lpc' = "drain"
    /\ feedbacks' = <<>>
    /\ reply' = Pending
    /\ UNCHANGED <<store, now, concurrency, globali, curid, lreq, idlist,
                   errmsg, queues, agents, reqInvalid, lastBatch, idhist,
                   agenthist, crashInflight>>

\* Listener.run: recv of any other message.
LRecvOther ==
    /\ UNCHANGED <<funs, dropLog>>
    /\ lpc = "recv"
    /\ lpc' = "err"
    /\ errmsg' = "Invalid input"
    /\ reply' = Pending
    /\ UNCHANGED <<store, now, concurrency, globali, curid, lreq, idlist,
                   feedbacks, queues, agents, reqInvalid, lastBatch, idhist,
                   agenthist, crashInflight>>

\* Listener._send_error, then back to recv. (Of the reply, the history
\* keeps "ERROR" and not the text after it.)
LSendError ==
    /\ UNCHANGED <<funs, dropLog>>
    /\ lpc = "err"
    /\ reply' = <<send_error(errmsg)[1]>>
    /\ reqInvalid' = FALSE
    /\ errmsg' = None
    /\ lpc' = "recv"
    /\ UNCHANGED <<store, now, concurrency, globali, curid, lreq, idlist,
                   feedbacks, queues, agents, lastBatch, idhist, agenthist,
                   crashInflight>>

\* _perform_send without its UPDATE: the row keeps the batch's first id.
NewCurStale(id, devtoks) == id

\* The counter written one short: the last id of the batch.
NewCurShort(id, devtoks) == id + Len(devtoks) - 1

\* The value _perform_send writes to ident.cur before it enqueues.
NewCur(id, devtoks) == id + Len(devtoks)

\* APNSListener._perform_send: UPDATE ident SET cur = curid + len(devtoks).
LUpdateIdent ==
    /\ UNCHANGED <<funs, dropLog>>
    /\ lpc = "perform"
    /\ identCur' = NewCur(curid, lreq.devtoks)
    /\ idlist' = <<>>
    /\ lpc' = "put"
    /\ UNCHANGED <<notifRows, feedbackRows, now, concurrency, globali,
                   curid, lreq, feedbacks, errmsg, queues, agents, reqhist,
                   idhist, agenthist, crashInflight>>

\* APNSListener._perform_send: one turn of "for devtok in devtoks".
LPut ==
    /\ UNCHANGED <<funs, dropLog>>
    /\ lpc = "put"
    /\ lreq.devtoks # <<>>
    /\ LET q == QPut(notifRows, apnsq,
                     Notif(curid, now, lreq.expiry, Head(lreq.devtoks),
                           lreq.payload))
       IN  /\ notifRows' = q.rows
           /\ apnsq' = q.queue
    /\ idlist' = Append(idlist, curid)
    /\ lastIssued' = curid
    /\ interrupted' = FALSE
    /\ putLog' = Append(putLog, curid)
    /\ curid' = curid + 1
    /\ lreq' = [lreq EXCEPT !.devtoks = Tail(@)]
    /\ UNCHANGED <<identCur, feedbackRows, now, lpc, concurrency, globali,
                   feedbacks, errmsg, feedbackq, agents, reqhist, agenthist,
                   crashInflight>>

\* Listener.run after _perform_send or _perform_feedback returned res:
\* "_send_ok(res)". When the call raises, the exception leaves run() on the
\* main thread and the process exits (the other threads are daemons).
Reply(res) ==
    LET r == run_send_ok(res)
    IN  IF r.raised
        THEN /\ Stopped("exited")
             /\ UNCHANGED <<reply, reqInvalid>>
        ELSE /\ reply' = r.reply
             /\ reqInvalid' = FALSE
             /\ lpc' = "recv"
             /\ UNCHANGED <<store, now, concurrency, globali, curid, lreq,
                            idlist, feedbacks, errmsg, queues, agents,
                            idhist, agenthist, crashInflight>>

LReplySend ==
    /\ UNCHANGED <<funs, dropLog>>
    /\ lpc = "put"
    /\ lreq.devtoks = <<>>
    /\ Reply(idlist)
    /\ lastBatch' = [ids |-> idlist, reply |-> run_send_ok(idlist).reply,
                     done |-> TRUE]

\* APNSListener._perform_feedback: one get_nowait that finds a record.
LDrainGet ==
    /\ UNCHANGED <<funs, dropLog>>
    /\ lpc = "drain"
    /\ feedbackq # <<>>
    /\ LET g == QGet(feedbackRows, feedbackq)
       IN  /\ feedbackRows' = g.rows
           /\ feedbackq' = g.queue
           /\ feedbacks' = Append(feedbacks, <<g.item.ts, g.item.devtok>>)
    /\ UNCHANGED <<identCur, notifRows, now, lpc, concurrency, globali,
                   curid, lreq, idlist, errmsg, apnsq, agents, reqhist,
                   idhist, agenthist, crashInflight>>

\* APNSListener._perform_feedback: get_nowait raises Queue.Empty, then
\* "_send_ok(res)".
LReplyFeedback ==
    /\ UNCHANGED <<funs, dropLog>>
    /\ lpc = "drain"
    /\ feedbackq = <<>>
    /\ Reply(feedbacks)
    /\ UNCHANGED lastBatch

\* ------------------------------------------------------------ push agent
\* What the two generations of the window w hold for ident: the current
\* dict first, then the previous one.
Held(w, ident) ==
    LET c == DictGet(w.n[w.i + 1], ident)
    IN  IF c = Null THEN DictGet(w.n[((w.i + 1) % 2) + 1], ident) ELSE c

\* APNSAgent._processerror on the recv outcome o. When _reallyprocesserror
\* raises, the thread ends there (apc "dead") and _close is not reached;
\* otherwise _close, then the agent goes on at nextpc, after a _connect
\* when reconnect.
ProcessError(a, o, nextpc, reconnect) ==
    LET r == processerror(sock[a], rn[a], o, now, globali)
        f == IF r.put = Null
             THEN [rows |-> feedbackRows, queue |-> feedbackq]
             ELSE QPut(feedbackRows, feedbackq, r.put)
    IN  /\ PutsFeedback(o) => Len(feedbackq) < MaxFeedback
        /\ rn' = [rn EXCEPT ![a] = r.w]
        /\ feedbackRows' = f.rows
        /\ feedbackq' = f.queue
        /\ lastErr' =
              IF PutsFeedback(o)
              THEN [held |-> Held(rotate(rn[a], now), o.id), put |-> r.put]
              ELSE lastErr
        /\ IF r.raised
           THEN /\ apc' = [apc EXCEPT ![a] = "dead"]
                /\ cur' = [cur EXCEPT ![a] = Null]
                /\ trial' = [trial EXCEPT ![a] = 0]
                /\ sock' = [sock EXCEPT ![a] = r.sock]
           ELSE /\ apc' = [apc EXCEPT ![a] = nextpc]
                /\ cur' = [cur EXCEPT ![a] =
                              IF nextpc = "send" THEN @ ELSE Null]
                /\ trial' = [trial EXCEPT ![a] =
                                IF nextpc = "send" THEN @ + 1 ELSE 0]
                /\ sock' = [sock EXCEPT ![a] =
                               IF reconnect THEN "open" ELSE r.sock]
        /\ pulledAt' = [pulledAt EXCEPT ![a] =
                           IF ~r.raised /\ nextpc = "send" THEN @ ELSE 0]

\* The lag check with its comparison turned round.
TooLateInverted(lag) == lag < apns_push_max_notif_lag

\* APNSAgent.run: the lag check.
TooLate(lag) == lag > apns_push_max_notif_lag

\* An entry of dropLog.
Dropped(ident, why) == [ident |-> ident, why |-> why]

\* APNSAgent.run: queue.get returns an item; the lag check; _connect when
\* there is no socket. The item is then held for the send loop.
AgentGet(a) ==
    /\ UNCHANGED funs
    /\ Up
    /\ apc[a] = "get"
    /\ apnsq # <<>>
    /\ LET g == QGet(notifRows, apnsq)
           lag == now - g.item.creation
       IN  /\ notifRows' = g.rows
           /\ apnsq' = g.queue
           /\ getLog' = Append(getLog, [agent |-> a, ident |-> g.item.ident])
           /\ dropLog' =
                 IF now - g.item.creation > apns_push_max_notif_lag
                 THEN dropLog \cup {Dropped(g.item.ident, "late")}
                 ELSE dropLog
           /\ IF TooLate(lag)
              THEN UNCHANGED <<apc, sock, cur, trial, pulledAt>>
              ELSE /\ apc' = [apc EXCEPT ![a] = "send"]
                   /\ sock' = [sock EXCEPT ![a] = "open"]
                   /\ cur' = [cur EXCEPT ![a] = g.item]
                   /\ trial' = [trial EXCEPT ![a] = 0]
                   /\ pulledAt' = [pulledAt EXCEPT ![a] = now]
    /\ UNCHANGED <<identCur, feedbackRows, now, listener, feedbackq, rn,
                   reqhist, idhist, written, lastErr, crashInflight>>

\* APNSAgent.run: sendall succeeds; record; then the wait for an error
\* response when maxerrorwait is not 0.
AgentWriteOk(a) ==
    /\ UNCHANGED <<funs, dropLog>>
    /\ Up
    /\ apc[a] = "send"
    /\ written' = [written EXCEPT ![a] = Append(@, cur[a].ident)]
    /\ rn' = [rn EXCEPT ![a] =
                 record(@, cur[a].ident, B64Decode(cur[a].devtok), now)]
    /\ apc' = [apc EXCEPT ![a] =
                  IF apns_push_max_error_wait # 0 THEN "wait" ELSE "get"]
    /\ cur' = [cur EXCEPT ![a] = Null]
    /\ trial' = [trial EXCEPT ![a] = 0]
    /\ pulledAt' = [pulledAt EXCEPT ![a] = 0]
    /\ UNCHANGED <<store, now, listener, queues, sock, reqhist, idhist,
                   getLog, lastErr, crashInflight>>

\* The send loop going round whatever the number of failures.
AfterFailAgain(t) == "send"

\* APNSAgent.run: where the agent goes on after the failure that made its
\* trial t: the send loop again while t < MAXTRIAL, else the drop and the
\* next pull.
AfterFail(t) == IF t = MAXTRIAL THEN "get" ELSE "send"

\* APNSAgent.run: sendall raises socket.error; _processerror, trial + 1,
\* _connect; after MAXTRIAL failures the notification is given up.
AgentWriteFail(a, o) ==
    /\ UNCHANGED funs
    /\ Up
    /\ apc[a] = "send"
    /\ ProcessError(a, o, AfterFail(trial[a] + 1), TRUE)
    /\ dropLog' = IF trial[a] + 1 >= 2
                  THEN dropLog \cup {Dropped(cur[a].ident, "failed")}
                  ELSE dropLog
    /\ UNCHANGED <<identCur, notifRows, now, listener, apnsq, reqhist,
                   idhist, getLog, written, crashInflight>>

\* APNSAgent.run: select after the write finds the socket readable.
AgentErrWaitReadable(a, o) ==
    /\ UNCHANGED <<funs, dropLog>>
    /\ Up
    /\ apc[a] = "wait"
    /\ ProcessError(a, o, "get", FALSE)
    /\ UNCHANGED <<identCur, notifRows, now, listener, apnsq, reqhist,
                   idhist, getLog, written, crashInflight>>

\* APNSAgent.run: select after the write times out.
AgentErrWaitTimeout(a) ==
    /\ UNCHANGED <<funs, dropLog>>
    /\ Up
    /\ apc[a] = "wait"
    /\ apc' = [apc EXCEPT ![a] = "get"]
    /\ UNCHANGED <<store, now, listener, queues, sock, cur, trial, rn,
                   reqhist, idhist, agenthist, crashInflight>>

\* APNSAgent.run: queue.get times out (Queue.Empty) and select finds the
\* socket readable.
AgentIdleReadable(a, o) ==
    /\ UNCHANGED <<funs, dropLog>>
    /\ Up
    /\ apc[a] = "get"
    /\ sock[a] = "open"
    /\ apnsq = <<>>
    /\ ProcessError(a, o, "get", FALSE)
    /\ UNCHANGED <<identCur, notifRows, now, listener, apnsq, reqhist,
                   idhist, getLog, written, crashInflight>>

\* ------------------------------------------------------------------ next
\* Every step of the process and of its environment but the clock's.
Step ==
    \/ StartAgent
    \/ StartListener
    \/ Crash
    \/ Boot
    \/ \E msg \in SendRequests : LRecvSend(msg)
    \/ LRecvFeedback
    \/ LRecvOther
    \/ LSendError
    \/ LUpdateIdent
    \/ LPut
    \/ LReplySend
    \/ LDrainGet
    \/ LReplyFeedback
    \/ \E a \in Agents : AgentGet(a)
    \/ \E a \in Agents : AgentWriteOk(a)
    \/ \E a \in Agents : \E o \in RecvOutcomes : AgentWriteFail(a, o)
    \/ \E a \in Agents : \E o \in RecvOutcomes : AgentErrWaitReadable(a, o)
    \/ \E a \in Agents : AgentErrWaitTimeout(a)
    \/ \E a \in Agents : \E o \in RecvOutcomes : AgentIdleReadable(a, o)

Next == Tick \/ Step

\* One push agent, the clock running.
Spec == Init /\ [][Next]_vars

\* A pool of two push agents, everything within one second of the clock.
InitPool == InitWith(2) /\ call = NoCall /\ ret = NoRet
SpecPool == InitPool /\ [][Step]_vars


\* ============================================ parts of the program alone
\* ---------------------------------- an APNSRecentNotifications object
\* One window of an agent of a pool whose global i is gi, with its clock;
\* used is the time of the last record or lookup (of the construction when
\* there was none).
\* The values of maxerrorwait the window is built with.
ErrorWaits == {apns_push_max_error_wait, 2 * apns_push_max_error_wait}

\* In the history of a window: the id was never recorded.
NotRecorded == -1

WindowCalls ==
    {[f |-> "window", w |-> Window(mew, 0), clock |-> 0, gi |-> g,
      used |-> 0, at |-> [ident \in Ids |-> NotRecorded]] :
        g \in Agents, mew \in ErrorWaits}

\* What a lookup returned: the id asked, the notification found (or Null),
\* and for how long the window had not been used.
Looked(ident, n, idle) ==
    [done |-> TRUE, ident |-> ident, n |-> n, idle |-> idle]

\* APNSAgent.run: self.recentnotifications.record(ident, bintok)
WRecord(ident) ==
    /\ call.f = "window"
    /\ call' = [call EXCEPT
                   !.w = record(@, ident, BinTok("t1", DEVTOKLEN), call.clock),
                   !.used = call.clock,
                   !.at[ident] = call.clock]
    /\ ret' = NoRet
    /\ UNCHANGED main

\* APNSAgent._reallyprocesserror: self.recentnotifications.lookup(errident)
WLookup(ident) ==
    /\ call.f = "window"
    /\ LET l == lookup(call.w, ident, call.clock, call.gi)
       IN  /\ call' = [call EXCEPT !.w = l.w, !.used = call.clock]
           /\ ret' = Looked(ident, l.n, call.clock - call.used)
    /\ UNCHANGED main

\* The window's clock: now() goes on by a second.
WTick ==
    /\ call.f = "window"
    /\ call.clock < MaxWindowNow
    /\ call' = [call EXCEPT !.clock = @ + 1]
    /\ ret' = NoRet
    /\ UNCHANGED main

\* ------------------------------------- APNSListener._parse_send alone
\* One send message and the clock at which it is parsed.
ParseCalls ==
    {[f |-> "parse", msg |-> m, clock |-> c] :
        m \in SendRequests, c \in 0 .. MaxNow}

\* Listener.run: res = self._parse_send(msg), with the ERROR text when no
\* result is handed to _perform_send.
FParse ==
    /\ call.f = "parse"
    /\ ~ret.done
    /\ ret' = [done |-> TRUE] @@ parse_send(call.msg, call.clock)
    /\ UNCHANGED <<main, call>>

\* ------------------------------------ APNSAgent.run: the frame, alone
\* The bytes of a binary token: those of "t1" are all 0, those of "t2" are
\* 1, 2, 3, ...
TokBytes(bin) ==
    [k \in 1 .. bin.len |-> IF bin.tok = "t1" THEN 0 ELSE k % 256]

\* The bytes of a payload of n bytes that repeats the byte fill.
PayloadBytes(n, fill) == [k \in 1 .. n |-> fill]

\* struct.pack('>B', x), '>H' and '>I': big-endian, standard sizes; raised
\* stands for struct.error on a value the field cannot hold.
PackB(x) == <<x % 256>>
PackH(x) == <<(x \div 256) % 256, x % 256>>
PackI(x) ==
    <<(x \div 16777216) % 256, (x \div 65536) % 256, (x \div 256) % 256,
      x % 256>>
FitsH(x) == 0 <= x /\ x < 65536
FitsI(x) == 0 <= x /\ (x \div 65536) < 65536

\* The frame packed without the ">" of the format: native alignment puts
\* three pad bytes between the command byte and the id.
binmsgNative(ident, expiry, bintok, payload) ==
    [raised |-> FALSE,
     bytes |-> PackB(1) \o <<0, 0, 0>> \o PackI(ident) \o PackI(expiry)
                 \o PackH(Len(bintok)) \o bintok
                 \o PackH(Len(payload)) \o payload]

\* APNSAgent.run: binmsg = struct.pack('> B II H<n>s H<m>s', 1, ident,
\* expiry, len(bintok), bintok, len(payload), payload): [raised, bytes]
binmsg(ident, expiry, bintok, payload) ==
    IF ~(FitsI(ident) /\ FitsI(expiry) /\ FitsH(Len(bintok))
         /\ FitsH(Len(payload)))
    THEN [raised |-> TRUE, bytes |-> <<>>]
    ELSE [raised |-> FALSE,
          bytes |-> PackB(1) \o PackI(ident) \o PackI(expiry)
                      \o PackH(Len(bintok)) \o bintok
                      \o PackH(Len(payload)) \o payload]

\* The ids and expiry values framed: values that fill one, two and four
\* bytes, and one the field cannot hold.
FrameInts == {0, 60, 16909060, 2147483647, -1}

\* One notification as the agent holds it after queue.get: a token the
\* Listener accepted, a payload of 0 to PAYLOADMAXLEN bytes.
FrameCalls ==
    {[f |-> "frame", ident |-> x, expiry |-> e, devtok |-> B64Encode(BinTok(t, DEVTOKLEN)),
      paylen |-> n, fill |-> 255] :
        x \in {0, 2147483647}, e \in FrameInts, t \in Tokens,
        n \in 0 .. PAYLOADMAXLEN}

\* APNSAgent.run: bintok = base64.standard_b64decode(devtok) and the frame
\* built from the item.
FFrame ==
    /\ call.f = "frame"
    /\ ~ret.done
    /\ ret' = [done |-> TRUE] @@
                  binmsg(call.ident, call.expiry,
                         TokBytes(B64Decode(call.devtok)),
                         PayloadBytes(call.paylen, call.fill))
    /\ UNCHANGED <<main, call>>

\* ---------------------------- APNSAgent.run: the pull of an idle agent
\* timeout = None: queue.get blocks until an item arrives.
NoTimeout == 0

\* The top of the loop: None without a socket, 1 with one.
TopTimeout(sk) == IF sk = "none" THEN NoTimeout ELSE 1

\* The Queue.Empty branch when the socket is not readable: the local
\* timeout doubled, None past 10.
GrownTimeout(timeout) ==
    IF timeout * 2 > 10 THEN NoTimeout ELSE timeout * 2

\* The timeout of the next queue.get after an empty poll left the local
\* at grown: "continue" goes to the top of the loop, which assigns the
\* local again.
NextTimeout(sk, grown) == TopTimeout(sk)

\* An agent about to call queue.get, with or without a socket; polls counts
\* the empty polls in a row that found the socket not readable.
PollCalls ==
    {[f |-> "poll", sock |-> sk, timeout |-> TopTimeout(sk), polls |-> 0] :
        sk \in {"none", "open"}}

\* queue.get times out and the socket is not readable.
FPollEmpty ==
    /\ call.f = "poll"
    /\ call.timeout # NoTimeout
    /\ call.polls < MaxPolls
    /\ call' = [call EXCEPT
                   !.timeout = NextTimeout(call.sock,
                                           GrownTimeout(call.timeout)),
                   !.polls = @ + 1]
    /\ UNCHANGED <<main, ret>>

\* queue.get times out and the socket is readable: _processerror closes
\* it.
FPollReadable ==
    /\ call.f = "poll"
    /\ call.timeout # NoTimeout
    /\ call' = [call EXCEPT !.sock = "none",
                            !.timeout = NextTimeout("none", NoTimeout),
                            !.polls = 0]
    /\ UNCHANGED <<main, ret>>

\* The error handler of an agent holding a socket: each recv outcome, on
\* a window holding nothing or one written notification.
ErrorCalls ==
    {[f |-> "error", sock |-> "open", w |-> w, o |-> o, clock |-> c,
      gi |-> g] :
        w \in {NewWindow(0)}
                 \cup {record(NewWindow(0), i, BinTok(t, DEVTOKLEN), 0) :
                          i \in Ids, t \in Tokens},
        o \in RecvOutcomes, c \in 0 .. MaxNow, g \in Agents}

\* APNSAgent._processerror
FError ==
    /\ call.f = "error"
    /\ ~ret.done
    /\ ret' = [done |-> TRUE]
                @@ processerror(call.sock, call.w, call.o, call.clock,
                                call.gi)
    /\ UNCHANGED <<main, call>>

\* ------------------------------------- TLSConnectionMaker.__call__ alone
\* The exceptions an attempt ends with.
DialErrors == {"gaierror", "SSLError", "Exception"}

\* TLSConnectionMaker.__call__: st, the time slept after the exception.
SleepFor(err, sleeptime) ==
    IF err = "gaierror" THEN 1
    ELSE IF err = "SSLError" THEN sleeptime
    ELSE (sleeptime + 9) \div 10

\* The dialer giving up after a failure whatever its sleeptime.
AfterDialErrorGiveUp(sleeptime) == "return"

\* TLSConnectionMaker.__call__: after the exception is logged, return
\* None when sleeptime is 0, else sleep and go round the loop.
AfterDialError(sleeptime) == IF sleeptime = 0 THEN "return" ELSE "sleep"

\* A call of the dialer: its sleeptime, and the history of its attempts,
\* failures and sleeps.
DialCalls ==
    {[f |-> "dial", sleeptime |-> st, attempts |-> 0, failures |-> 0,
      slept |-> <<>>] : st \in {0, 1, 11}}

\* One turn of the loop where connect returns.
FDialOk ==
    /\ call.f = "dial"
    /\ ~ret.done
    /\ call.attempts < MaxDials
    /\ call' = [call EXCEPT !.attempts = @ + 1]
    /\ ret' = [done |-> TRUE, sslsock |-> "open"]
    /\ UNCHANGED main

\* One turn of the loop where getaddrinfo, wrap_socket or connect raises.
FDialError(err) ==
    /\ call.f = "dial"
    /\ ~ret.done
    /\ call.attempts < MaxDials
    /\ IF AfterDialError(call.sleeptime) = "return"
       THEN /\ call' = [call EXCEPT !.attempts = @ + 1, !.failures = @ + 1]
            /\ ret' = [done |-> TRUE, sslsock |-> "none"]
       ELSE /\ call' = [call EXCEPT
                           !.attempts = @ + 1, !.failures = @ + 1,
                           !.slept = Append(@, SleepFor(err, call.sleeptime))]
            /\ ret' = ret
    /\ UNCHANGED main

\* ------------------------------------------ APNSFeedbackAgent.run alone
\* APNSFeedbackAgent.__init__: struct.calcsize('> IH 32s')
tuplesize == 4 + 2 + DEVTOKLEN

\* The token a string of bytes is.
TokOfBytes(b) ==
    IF b = TokBytes(BinTok("t1", Len(b))) THEN BinTok("t1", Len(b))
    ELSE IF b = TokBytes(BinTok("t2", Len(b))) THEN BinTok("t2", Len(b))
    ELSE BinTok("other", Len(b))

\* struct.unpack('>I', b)
UnpackI(b) == 16777216 * b[1] + 65536 * b[2] + 256 * b[3] + b[4]

\* str(ts)
Str(x) == [str |-> x]

\* APNSFeedbackAgent.run: struct.unpack(self.fmt, bintuple) and the record
\* put on the queue, (str(ts), devtokfmt(bintok)).
FeedbackTuple(bintuple) ==
    LET ts == UnpackI(SubSeq(bintuple, 1, 4))
        bintok == TokOfBytes(SubSeq(bintuple, 7, tuplesize))
    IN  Feedback(Str(ts), devtokfmt(bintok))

\* The inner loop run once only: one tuple for each recv.
DrainOne(buf) ==
    IF Len(buf) < tuplesize THEN [buf |-> buf, recs |-> <<>>]
    ELSE [buf |-> SubSeq(buf, tuplesize + 1, Len(buf)),
          recs |-> <<FeedbackTuple(SubSeq(buf, 1, tuplesize))>>]

\* APNSFeedbackAgent.run: the inner loop on buf: [buf, recs], what is left
\* of buf and the records put on the queue, in the order of the puts.
RECURSIVE Drain(_)
Drain(buf) ==
    IF Len(buf) < tuplesize THEN [buf |-> buf, recs |-> <<>>]
    ELSE LET d == Drain(SubSeq(buf, tuplesize + 1, Len(buf)))
         IN  [buf |-> d.buf,
              recs |-> <<FeedbackTuple(SubSeq(buf, 1, tuplesize))>>
                          \o d.recs]

\* The agent made without the socket of the main thread.
FeedbackSockNone(s) == "none"

\* APNSFeedbackAgent.__init__: self.sock = sock
FeedbackSock(s) == s

\* What the feedback service sends in a session: tuples (a timestamp, the
\* length 32, a token), then garbage bytes that do not fill a tuple.
WireTuple(t) ==
    PackI(t.ts) \o PackH(DEVTOKLEN) \o TokBytes(BinTok(t.tok, DEVTOKLEN))

RECURSIVE Wire(_, _)
Wire(tuples, garbage) ==
    IF tuples = <<>> THEN [k \in 1 .. garbage |-> 170]
    ELSE WireTuple(Head(tuples)) \o Wire(Tail(tuples), garbage)

WireTuples == [ts : {0, 16909060}, tok : Tokens]

\* The number of bytes one recv returns.
ReadSizes == {1, tuplesize - 1, tuplesize, tuplesize + 1, 2 * tuplesize}

\* The agent as main starts it, with the socket of the probe; the service
\* sends the same bytes in each session. pos counts the bytes received in
\* the session; the rest is the history of the agent's reads, closes,
\* sleeps and dials.
FeedbackCalls ==
    {[f |-> "feedback", tuples |-> t, garbage |-> g,
      sock |-> FeedbackSock("inherited"), pos |-> 0, buf |-> <<>>,
      put |-> <<>>, sessions |-> 0, discarded |-> 0, firstRead |-> "none",
      eofs |-> 0, closes |-> 0, dials |-> 0, slept |-> <<>>] :
        t \in UNION {[1 .. n -> WireTuples] : n \in 0 .. MaxTuples},
        g \in {0, 1, tuplesize - 1}}

\* APNSFeedbackAgent.run: recv returns n bytes; the inner loop.
FFeedRecv(n) ==
    /\ call.f = "feedback"
    /\ call.sock # "none"
    /\ LET wire == Wire(call.tuples, call.garbage)
           b == SubSeq(wire, call.pos + 1, call.pos + n)
           d == Drain(call.buf \o b)
       IN  /\ call.pos + n <= Len(wire)
           /\ call' = [call EXCEPT
                          !.pos = @ + n,
                          !.buf = d.buf,
                          !.put = @ \o d.recs,
                          !.firstRead =
                              IF @ = "none" THEN call.sock ELSE @]
    /\ UNCHANGED <<main, ret>>

\* APNSFeedbackAgent.run: recv returns no byte (the service closed): the
\* warning on what is left in buf, break, _close.
FFeedClose ==
    /\ call.f = "feedback"
    /\ call.sock # "none"
    /\ call.pos = Len(Wire(call.tuples, call.garbage))
    /\ call' = [call EXCEPT
                   !.sock = "none",
                   !.discarded = Len(call.buf),
                   !.firstRead = IF @ = "none" THEN call.sock ELSE @,
                   !.eofs = @ + 1,
                   !.closes = @ + 1,
                   !.sessions = @ + 1]
    /\ UNCHANGED <<main, ret>>

\* APNSFeedbackAgent.run: the top of the loop without a socket: sleep,
\* tlsconnect (which returns a socket: frequency is its sleeptime), and
\* buf = "".
FFeedDial ==
    /\ call.f = "feedback"
    /\ call.sock = "none"
    /\ call.sessions < MaxSessions
    /\ call' = [call EXCEPT
                   !.sock = "dialed",
                   !.slept = Append(@, apns_feedback_freq),
                   !.dials = @ + 1,
                   !.pos = 0,
                   !.buf = <<>>,
                   !.discarded = 0]
    /\ UNCHANGED <<main, ret>>

\* ------- OrderedPersistentQueue and ChronologicalPersistentQueue alone
\* OrderedPersistentQueue._NEGLIGIBLEWAIT (0.2 s), in tenths of a second,
\* the unit of the queue's clock and of its orderings.
NEGLIGIBLEWAIT == 2

\* The threads that call get.
Consumers == {1, 2}

\* The ready-at times (orderings) of the items put.
PutTimes == {0, 3}

\* A row of the table: inuse, ordering, data.
QRow(rowid, ordering, item) ==
    [rowid |-> rowid, inuse |-> 0, ordering |-> ordering, data |-> item]

\* OrderedPersistentQueue._pick: the rows SELECT ... WHERE inuse = 0 ORDER
\* BY ordering LIMIT 1 may give (any of those of the least ordering).
pick(rows) ==
    {r \in rows :
        /\ r.inuse = 0
        /\ \A x \in rows : x.inuse = 0 => r.ordering <= x.ordering}

\* OrderedPersistentQueue._grab: UPDATE ... SET inuse = 1 WHERE rowid = ?
grab(rows, r) ==
    {IF x.rowid = r.rowid THEN [x EXCEPT !.inuse = 1] ELSE x : x \in rows}

\* OrderedPersistentQueue._ack: DELETE ... WHERE rowid = ?
ack(rows, r) == {x \in rows : x.rowid # r.rowid}

\* ChronologicalPersistentQueue.get: whether the thread that picked r goes
\* on waiting at clock (timedelta >= _NEGLIGIBLEWAIT); OrderedPersistentQueue
\* .get never waits on a row it picked.
MustWait(kind, r, clock) ==
    kind = "chronological" /\ r.ordering - clock >= NEGLIGIBLEWAIT

\* A queue on an empty table, no thread in get. got is the history of what
\* get returned: the thread, the item, its ordering, the clock, and
\* whether a row not in use had a smaller ordering at that moment.
QueueCalls ==
    {[f |-> "queue", kind |-> k, rows |-> {}, clock |-> 0, puts |-> 0,
      waiting |-> [c \in Consumers |-> Null], got |-> <<>>] :
        k \in {"ordered", "chronological"}}

\* The history entry of a get that returns r.
Got(c, r, rows, clock) ==
    [consumer |-> c, item |-> r.data, ordering |-> r.ordering, at |-> clock,
     overtook |-> \E x \in rows : x.inuse = 0 /\ x.ordering < r.ordering]

\* put(ordering, item) / put(when, item): the INSERT. (The notify wakes a
\* waiting thread, which TQWake lets happen at any time.)
TQPut(when) ==
    /\ call.f = "queue"
    /\ call.puts < MaxPuts
    /\ call' = [call EXCEPT
                   !.rows = @ \cup {QRow(NextRowid(@), when, call.puts)},
                   !.puts = @ + 1]
    /\ UNCHANGED <<main, ret>>

\* get by a thread not in get, when _pick finds a row: the row is grabbed
\* and returned, or the thread waits on the condition for its time.
TQGet(c) ==
    /\ call.f = "queue"
    /\ call.waiting[c] = Null
    /\ \E r \in pick(call.rows) :
          IF MustWait(call.kind, r, call.clock)
          THEN call' = [call EXCEPT !.waiting[c] = r]
          ELSE call' = [call EXCEPT
                           !.rows = grab(@, r),
                           !.got = Append(@, Got(c, r, call.rows,
                                                 call.clock))]
    /\ UNCHANGED <<main, ret>>

\* ChronologicalPersistentQueue.get: cv.wait(timedelta) returns (a notify
\* or the timeout) and the loop looks at the row r picked before the wait.
TQWake(c) ==
    /\ call.f = "queue"
    /\ call.waiting[c] # Null
    /\ ~MustWait(call.kind, call.waiting[c], call.clock)
    /\ call' = [call EXCEPT
                   !.waiting[c] = Null,
                   !.rows = grab(@, call.waiting[c]),
                   !.got = Append(@, Got(c, call.waiting[c], call.rows,
                                         call.clock))]
    /\ UNCHANGED <<main, ret>>

\* ack(t) by the thread that got t, for a t not acknowledged yet.
TQAck(k) ==
    /\ call.f = "queue"
    /\ k \in 1 .. Len(call.got)
    /\ \E x \in call.rows : x.data = call.got[k].item /\ x.inuse = 1
    /\ call' = [call EXCEPT
                   !.rows = {x \in @ : x.data # call.got[k].item}]
    /\ UNCHANGED <<main, ret>>

\* nowmicro() goes on by a tenth of a second.
TQTick ==
    /\ call.f = "queue"
    /\ call.clock < MaxQClock
    /\ call' = [call EXCEPT !.clock = @ + 1]
    /\ UNCHANGED <<main, ret>>

\* ------------------------------------------------------------------ next
FunStep ==
    \/ \E ident \in Ids : WRecord(ident)
    \/ \E ident \in Ids : WLookup(ident)
    \/ WTick
    \/ FParse
    \/ FFrame
    \/ FPollEmpty
    \/ FPollReadable
    \/ FError
    \/ FDialOk
    \/ \E err \in DialErrors : FDialError(err)
    \/ \E n \in ReadSizes : FFeedRecv(n)
    \/ FFeedClose
    \/ FFeedDial
    \/ \E when \in PutTimes : TQPut(when)
    \/ \E c \in Consumers : TQGet(c)
    \/ \E c \in Consumers : TQWake(c)
    \/ \E k \in 1 .. MaxPuts * 2 : TQAck(k)
    \/ TQTick

\* One part of the program taken alone, from each of its inputs.
InitFun ==
    /\ InitWith(1)
    /\ call \in WindowCalls \cup ParseCalls \cup FrameCalls \cup PollCalls
                  \cup ErrorCalls \cup DialCalls \cup FeedbackCalls
                  \cup QueueCalls
    /\ ret = NoRet
SpecFun == InitFun /\ [][FunStep]_vars

\* =============================================================== claims
\* The ids of the notifications in a queue, and of the gets so far.
QueueIds(q) == [k \in 1 .. Len(q) |-> q[k][2].ident]
RowIds(rows) == {EvalData(r.data).ident : r \in rows}
GetIds == [k \in 1 .. Len(getLog) |-> getLog[k].ident]
PulledBy(a) ==
    LET mine == SelectSeq(getLog, LAMBDA e : e.agent = a)
    IN  [k \in 1 .. Len(mine) |-> mine[k].ident]
IsPrefix(s, t) == Len(s) <= Len(t) /\ SubSeq(t, 1, Len(s)) = s
Occurrences(s, x) == Cardinality({k \in 1 .. Len(s) : s[k] = x})
RECURSIVE IsSubseq(_, _)
IsSubseq(s, t) ==
    IF s = <<>> THEN TRUE
    ELSE IF t = <<>> THEN FALSE
    ELSE IF Head(s) = Head(t) THEN IsSubseq(Tail(s), Tail(t))
    ELSE IsSubseq(s, Tail(t))

\* C1, as the specification states it: the ids put on the push queue
\* increase from 0 in request order, the ids of one batch are contiguous,
\* and a send that was performed got the reply OK listing its ids in order.
C1_IdsListedInOkReply ==
    /\ \A j, k \in 1 .. Len(putLog) : j < k => putLog[j] < putLog[k]
    /\ putLog # <<>> => putLog[1] = 0
    /\ \A k \in 1 .. (Len(lastBatch.ids) - 1) :
           lastBatch.ids[k + 1] = lastBatch.ids[k] + 1
    /\ lastBatch.done => lastBatch.reply = send_ok(lastBatch.ids)

\* C2, as the specification states it: whenever the Listener waits for a
\* request after ids were issued, the next id it assigns is the last id
\* issued plus 1.
C2_NextIsLastPlusOne ==
    (lpc = "recv" /\ lastIssued >= 0) => curid = lastIssued + 1

\* C2, amended: whenever the Listener waits for a request, the next id it
\* assigns is the persisted counter; it is greater than every id issued, and
\* it is the last id issued plus 1 unless the process died inside a batch
\* after that id (then the ids of the rest of that batch are skipped); the
\* persisted counter never decreases.
C2_NextIsPersistedCounter ==
    /\ [](lpc = "recv" =>
             /\ curid = identCur
             /\ curid > lastIssued
             /\ ~interrupted => curid = lastIssued + 1)
    /\ [][identCur' >= identCur]_vars

\* C2's case: the Listener waits for a request after a restart that
\* followed a death inside a batch, and ids are skipped.
C2_RestartedAfterInterruptedBatch ==
    /\ lpc = "recv"
    /\ interrupted
    /\ lastIssued >= 0
    /\ curid > lastIssued + 1

\* C3, as the specification states it: a notification an agent held
\* unwritten when the process died is, once the process runs again, on the
\* push queue or handed out a second time, and never a third.
C3_InflightRedelivered ==
    Up => \A x \in crashInflight :
              \/ x \in {QueueIds(apnsq)[k] : k \in 1 .. Len(apnsq)}
                     /\ Occurrences(GetIds, x) = 1
              \/ x \notin {QueueIds(apnsq)[k] : k \in 1 .. Len(apnsq)}
                     /\ Occurrences(GetIds, x) = 2

\* C4: while the process runs, the rows of each table in rowid order are
\* the items of its in-memory queue in queue order, before and after a
\* restart; so the push queue holds, once each and in put order, the
\* notifications that were put and not dequeued.
C4_RowsAreTheQueue ==
    Up => /\ LoadRows(notifRows) = apnsq
          /\ LoadRows(feedbackRows) = feedbackq
          /\ QueueIds(apnsq) = SubSeq(putLog, Len(getLog) + 1, Len(putLog))

\* C4's case: after a restart the queue holds a notification put before it,
\* an earlier one having been dequeued.
C4_ReloadedAfterGet ==
    /\ lpc = "recv"
    /\ lastBatch = NoBatch
    /\ Len(apnsq) >= 1
    /\ Len(getLog) >= 1
    /\ Len(putLog) = Len(getLog) + Len(apnsq)

\* C5: get hands out the notifications in the order of their puts, across
\* restarts too, and each agent writes frames in the order it pulled the
\* notifications.
C5_GetInPutOrder ==
    /\ IsPrefix(GetIds, putLog)
    /\ \A a \in Agents : IsSubseq(written[a], PulledBy(a))

\* C5's case: two notifications were put, both were pulled, and one agent
\* has written both.
C5_TwoWrittenInOrder ==
    /\ Len(putLog) = 2
    /\ Len(getLog) = 2
    /\ \E a \in Agents : Len(written[a]) = 2

\* C6: no notification is handed out by get twice, to the same agent or to
\* two, and no two agents hold the same notification.
C6_HandedToOneAgent ==
    /\ \A j, k \in 1 .. Len(getLog) :
           j # k => getLog[j].ident # getLog[k].ident
    /\ \A a, b \in Agents :
           (a # b /\ cur[a] # Null) => cur[a] # cur[b]

\* C6's case: the two agents each hold a notification while the Listener
\* is still inside the batch.
C6_TwoAgentsHolding ==
    /\ lpc = "put"
    /\ \A a \in Agents : cur[a] # Null

\* C7, as the specification states it: when a status-8 error frame names an
\* id whose token the agent's window holds, the record put on the feedback
\* queue is (0, that token).
C7_FeedbackNamesToken ==
    lastErr.held # Null => lastErr.put = Feedback(0, devtokfmt(lastErr.held))

\* C8, as the specification states it: no agent writes the frame of a
\* notification whose expiry was earlier than now when the agent dequeued
\* it.
C8_ExpiredNeverWritten ==
    [][\A a \in Agents :
           written'[a] # written[a] => ~(cur[a].expiry < pulledAt[a])]_vars

\* C9, as the specification states it: a send that breaks the grammar goes
\* from its receipt to the ERROR reply and nowhere else; while it is being
\* handled the persisted id counter does not change and nothing is put on
\* the push queue.
C9_InvalidSendRejected ==
    [][/\ (reqInvalid' /\ Up') => lpc' = "err"
       /\ (reqInvalid /\ Up') =>
              /\ lpc' = "recv" => reply' = <<"ERROR">>
              /\ identCur' = identCur
              /\ putLog' = putLog]_vars

\* C10, as the specification states it: the Listener does not stop over a
\* request, and whenever it waits for the next request every request
\* received was answered, with OK or ERROR.
C10_EveryRequestAnswered ==
    /\ lpc # "exited"
    /\ lpc = "recv" => reply # Pending

\* C11, as the specification states it: a feedback command takes the records
\* off the feedback queue and its table one by one in queue order, ends when
\* the queue is empty, and then replies OK with the records taken, after
\* which the Listener waits for the next request.
C11_FeedbackDrainedAndReturned ==
    [][/\ (lpc = "drain" /\ lpc' = "drain" /\ feedbacks' # feedbacks) =>
              /\ feedbacks' = Append(feedbacks, <<Head(feedbackq)[2].ts,
                                                  Head(feedbackq)[2].devtok>>)
              /\ feedbackq' = Tail(feedbackq)
              /\ LoadRows(feedbackRows') = feedbackq'
       /\ (lpc = "drain" /\ lpc' \notin {"drain", "down"}) =>
              /\ feedbackq = <<>>
              /\ lpc' = "recv"
              /\ reply' = send_ok(feedbacks)]_vars

\* C12, as the specification states it: a lookup made when the window was
\* neither written nor read for 2 * rotatetime or longer finds nothing.
C12_NothingResolvesAfterIdle ==
    (call.f = "window" /\ ret.done
        /\ ret.idle >= 2 * call.w.rotatetime) =>
        ret.n = Null

\* C13, as the specification states it: of a send whose tokens and payload
\* are accepted, the expiry word "+N" resolves to the clock plus N, a decimal
\* word "N" to N, whatever its number of digits, and a send with any other
\* expiry word is answered ERROR; the value resolved is the expiry handed on
\* for the notifications of the batch.
C13_ExpiryResolved ==
    (/\ call.f = "parse"
     /\ ret.done
     /\ \A k \in 1 .. Len(call.msg.devtoks) :
            TokWellFormed(call.msg.devtoks[k])
     /\ call.msg.payload <= PAYLOADMAXLEN) =>
        IF ExpiryWellFormed(call.msg.expiry)
        THEN /\ ret.error = None
             /\ ret.expiry = parse_expiry(call.msg.expiry, call.clock).value
        ELSE ret.error # None

\* Reading a frame by the layout of the specification: command u8, id u32,
\* expiry u32, token length u16, token, payload length u16, payload, all
\* big-endian.
Be(b) ==
    IF Len(b) = 2 THEN 256 * b[1] + b[2]
    ELSE 16777216 * b[1] + 65536 * b[2] + 256 * b[3] + b[4]
FrameCommand(b) == b[1]
FrameIdent(b) == Be(SubSeq(b, 2, 5))
FrameExpiry(b) == Be(SubSeq(b, 6, 9))
FrameTokLen(b) == Be(SubSeq(b, 10, 11))
FrameToken(b) == SubSeq(b, 12, 11 + FrameTokLen(b))
FramePayLen(b) == Be(SubSeq(b, 12 + FrameTokLen(b), 13 + FrameTokLen(b)))
FramePayload(b) ==
    SubSeq(b, 14 + FrameTokLen(b), 13 + FrameTokLen(b) + FramePayLen(b))

\* C14: a frame built for a notification, read by the layout of the
\* specification, gives command 1, the notification's id and expiry, token
\* length 32 and its token bytes, the payload's length and its bytes, and
\* nothing more: the frame has 13 + 32 + payload length bytes.
C14_FrameRoundTrip ==
    (call.f = "frame" /\ ret.done /\ ~ret.raised) =>
        /\ Len(ret.bytes) = 13 + DEVTOKLEN + call.paylen
        /\ FrameCommand(ret.bytes) = 1
        /\ FrameIdent(ret.bytes) = call.ident
        /\ FrameExpiry(ret.bytes) = call.expiry
        /\ FrameTokLen(ret.bytes) = DEVTOKLEN
        /\ FrameToken(ret.bytes) = TokBytes(B64Decode(call.devtok))
        /\ FramePayLen(ret.bytes) = call.paylen
        /\ FramePayload(ret.bytes) = PayloadBytes(call.paylen, call.fill)

\* C14's case: the frame of a notification with the largest payload and
\* the largest id and expiry was built.
C14_LargestFrameBuilt ==
    /\ call.f = "frame"
    /\ ret.done
    /\ ~ret.raised
    /\ call.paylen = PAYLOADMAXLEN
    /\ call.ident = 2147483647
    /\ call.expiry = 2147483647

\* The request of scenario S1: send +60 1 <hex of 32 zero bytes> hello.
S1Request ==
    [cmd |-> "send", expiry |-> <<"+", "6", "0">>,
     devtoks |-> <<TokText("hex", "t1", DEVTOKLEN)>>, payload |-> 5]

\* C15, as the specification states it: the request of S1 on a fresh store
\* is accepted, the reply sent for its one id is OK 0, and the frame built
\* for its notification is 51 bytes long.
C15_ScenarioS1 ==
    (call.f = "parse" /\ call.msg = S1Request /\ ret.done) =>
        /\ ret.error = None
        /\ run_send_ok(<<0>>).reply = send_ok(<<0>>)
        /\ Len(binmsg(0, ret.expiry, TokBytes(B64Decode(ret.devtoks[1])),
                      PayloadBytes(ret.payload, 255)).bytes) = 51

\* The timeout the specification gives an agent with a socket after n empty
\* polls in a row: 1, 2, 4, 8 seconds, then none.
RECURSIVE DrainInterval(_)
DrainInterval(n) ==
    IF n = 0 THEN 1
    ELSE IF DrainInterval(n - 1) = NoTimeout
              \/ 2 * DrainInterval(n - 1) > 10
    THEN NoTimeout
    ELSE 2 * DrainInterval(n - 1)

\* C20, as the specification states it: an agent without a socket pulls
\* with no timeout; an agent with a socket pulls with 1 second at first, the
\* double after every empty poll that finds the socket not readable, and no
\* timeout once the double would pass 10 seconds.
C20_TimeoutDoubles ==
    call.f = "poll" =>
        call.timeout = IF call.sock = "none" THEN NoTimeout
                       ELSE DrainInterval(call.polls)

\* C16: a notification has at most MAXTRIAL = 2 write attempts: while an
\* agent is in its send loop fewer than 2 of its writes have failed, a first
\* failure leaves the agent reconnected in the send loop with the same
\* notification, and a notification whose second write failed is held by no
\* agent, is in no agent's window, is neither in the push queue nor in its
\* store, was handed out once and was written by no agent.
C16_DroppedAfterTwoFailures ==
    /\ \A a \in Agents : apc[a] = "send" => trial[a] < 2
    /\ \A a \in Agents :
          (apc[a] = "send" /\ trial[a] > 0) =>
             (sock[a] = "open" /\ cur[a] # Null)
    /\ \A d \in dropLog :
          d.why = "failed" =>
             /\ \A a \in Agents :
                   /\ cur[a] # Null => cur[a].ident # d.ident
                   /\ Occurrences(written[a], d.ident) = 0
                   /\ Held(rn[a], d.ident) = Null
             /\ Up => Occurrences(QueueIds(apnsq), d.ident) = 0
             /\ d.ident \notin RowIds(notifRows)
             /\ Occurrences(GetIds, d.ident) = 1

\* C16 witness: a notification was dropped after two failed writes, and
\* the agent went on to write another one.
C16_DroppedThenWroteNext ==
    /\ Up
    /\ \E d \in dropLog : d.why = "failed"
    /\ \E a \in Agents :
          /\ written[a] # <<>>
          /\ \E i \in 1 .. Len(getLog) :
                /\ getLog[i].agent = a
                /\ Dropped(getLog[i].ident, "failed") \in dropLog

\* C17: when _processerror has returned, whatever recv gave, the agent
\* holds no socket. (On a frame whose status is not a key of
\* _error_responses the handler does not return: KeyError ends the thread.)
C17_ClosedWhenHandlerReturns ==
    (call.f = "error" /\ ret.done /\ ~ret.raised) => ret.sock = "none"

\* C17 witness: the handler returned on a frame that named a notification of
\* the window and put its feedback record.
C17_HandlerReturnedOnFrame ==
    /\ call.f = "error"
    /\ ret.done
    /\ ~ret.raised
    /\ call.o.kind = "frame"
    /\ ret.put # Null
    /\ ret.put.devtok # unknown

\* C18: the agent that gives a notification up after its failed writes
\* (it leaves the send loop having written nothing) holds no socket, and
\* an agent without a socket gets one only with an item of the push queue.
C18_DisconnectedAfterDrop ==
    [][\A a \in Agents :
         /\ (Up /\ Up' /\ apc[a] = "send" /\ apc'[a] = "get"
                /\ written'[a] = written[a])
               => sock'[a] = "none"
         /\ (Up /\ Up' /\ sock[a] = "none" /\ sock'[a] = "open")
               => Len(getLog') = Len(getLog) + 1]_vars

\* C19: a notification that an agent received more than the maximum lag
\* after its creation is written by no agent, held by no agent, neither in
\* the push queue nor in its store, and was handed out exactly once.
C19_LateNeverWritten ==
    \A d \in dropLog :
       d.why = "late" =>
          /\ \A a \in Agents :
                /\ cur[a] # Null => cur[a].ident # d.ident
                /\ Occurrences(written[a], d.ident) = 0
          /\ Up => Occurrences(QueueIds(apnsq), d.ident) = 0
          /\ d.ident \notin RowIds(notifRows)
          /\ Occurrences(GetIds, d.ident) = 1

\* C19 witness: a late notification was dropped and the agent that dropped
\* it then wrote the next one.
C19_LateDroppedThenWroteNext ==
    /\ Up
    /\ \E d \in dropLog : d.why = "late"
    /\ \E a \in Agents :
          /\ written[a] # <<>>
          /\ \E i \in 1 .. Len(getLog) :
                /\ getLog[i].agent = a
                /\ Dropped(getLog[i].ident, "late") \in dropLog

\* C21, as the specification states it: a lookup made less than rotatetime
\* after the id was recorded finds the token recorded, whatever records,
\* lookups and rotations came in between.
C21_ResolvesWithinRotatetime ==
    (call.f = "window" /\ ret.done
        /\ call.at[ret.ident] # NotRecorded
        /\ call.clock - call.at[ret.ident] < call.w.rotatetime) =>
        ret.n = BinTok("t1", DEVTOKLEN)

\* C22: the dialer called with sleeptime 0 returns at its first attempt,
\* None if the attempt failed and the socket if it did not; called with a
\* sleeptime above 0 it has slept, a second at least, after each of its
\* failures and returns nothing but a connected socket.
C22_ProbeOnceElseRetry ==
    call.f = "dial" =>
       /\ call.sleeptime = 0 =>
             /\ call.attempts <= 1
             /\ ret.done <=> call.attempts = 1
             /\ ret.done =>
                   (ret.sslsock = "none" <=> call.failures = 1)
       /\ call.sleeptime > 0 =>
             /\ Len(call.slept) = call.failures
             /\ \A k \in 1 .. Len(call.slept) : call.slept[k] >= 1
             /\ ret.done =>
                   /\ ret.sslsock = "open"
                   /\ call.attempts = call.failures + 1

\* C22 witness: a dialer with a sleeptime returned a socket after two
\* failures.
C22_ConnectedAfterRetries ==
    /\ call.f = "dial"
    /\ call.sleeptime > 0
    /\ ret.done
    /\ call.failures = 2

\* The record the specification gives for a tuple of the wire.
RecordOf(t) == Feedback(Str(t.ts), devtokfmt(BinTok(t.tok, DEVTOKLEN)))

\* The records of the first n tuples of a session, in wire order.
RecordsOf(tuples, n) == [k \in 1 .. n |-> RecordOf(tuples[k])]

RECURSIVE Times(_, _)
Times(recs, n) == IF n = 0 THEN <<>> ELSE recs \o Times(recs, n - 1)

\* What the sessions of a call put on the queue: every tuple of each
\* session that ended, then the complete tuples of the bytes received so
\* far in the current one.
SessionPuts ==
    Times(RecordsOf(call.tuples, Len(call.tuples)), call.sessions)
        \o IF call.sock = "none" THEN <<>>
            ELSE RecordsOf(call.tuples, call.pos \div tuplesize)

\* C23: however the bytes of a session are split across reads, the
\* records put on the feedback queue are one (timestamp, formatted token)
\* for each complete 38-byte tuple received, in wire order; the bytes kept
\* are those after the last complete tuple, and at the close of the service
\* they are discarded and nothing is put for them.
C23_OneRecordPerTuple ==
    call.f = "feedback" =>
       /\ tuplesize = 38
       /\ call.put = SessionPuts
       /\ call.sock # "none" => Len(call.buf) = call.pos % tuplesize
       /\ call.sock = "none" => call.discarded = call.garbage

\* C23 witness: a session of two tuples and trailing garbage ended, its
\* two records on the queue, the garbage discarded.
C23_TwoTuplesAndGarbage ==
    /\ call.f = "feedback"
    /\ call.sessions = 1
    /\ call.sock = "none"
    /\ Len(call.tuples) = 2
    /\ call.tuples[1] # call.tuples[2]
    /\ call.discarded = tuplesize - 1
    /\ Len(call.put) = 2

\* C24: the agent's first read is on the socket inherited from main, no
\* sleep and no dial before it; each close of the service is followed by
\* the close of the socket, and the agent holds a socket again only after
\* a sleep of frequency seconds and one dial for that close.
C24_InheritedThenSleepAndDial ==
    call.f = "feedback" =>
       /\ call.firstRead \in {"none", "inherited"}
       /\ call.sock = "inherited" => (call.dials = 0 /\ call.slept = <<>>)
       /\ call.closes = call.eofs
       /\ Len(call.slept) = call.dials
       /\ \A k \in 1 .. Len(call.slept) : call.slept[k] = apns_feedback_freq
       /\ call.sock = "none" => call.eofs = call.dials + 1
       /\ call.sock # "none" => call.eofs = call.dials

\* C24 witness: after the first session on the inherited socket the agent
\* slept, dialed and read again.
C24_SecondSessionRead ==
    /\ call.f = "feedback"
    /\ call.firstRead = "inherited"
    /\ call.sock = "dialed"
    /\ call.dials = 1
    /\ call.pos > 0

\* C25, as the specification states it: what get of the chronological
\* queue returns had, when it was returned, no row not in use of a smaller
\* ready-at time beside it, and was returned no earlier than its ready-at
\* time less the negligible wait.
C25_ReturnedInReadyOrder ==
    (call.f = "queue" /\ call.kind = "chronological") =>
       \A k \in 1 .. Len(call.got) :
          /\ ~call.got[k].overtook
          /\ call.got[k].at > call.got[k].ordering - NEGLIGIBLEWAIT

\* C26, as the specification states it: no item is returned by two gets.
C26_NeverHandedTwice ==
    call.f = "queue" =>
       \A j, k \in 1 .. Len(call.got) :
          j # k => call.got[j].item # call.got[k].item

\* C27: in every state, inside a batch too, the persisted counter is
\* greater than every id given to a notification enqueued so far, be it
\* still in the table or not, and no id was given to two notifications,
\* whatever deaths and restarts of the process came in between.
C27_CounterAboveEveryId ==
    /\ \A k \in 1 .. Len(putLog) : putLog[k] < identCur
    /\ \A id \in RowIds(notifRows) : id < identCur
    /\ \A j, k \in 1 .. Len(putLog) : j # k => putLog[j] # putLog[k]

\* C27 witness: the process died inside a batch, after the counter was
\* written and before id 0 was given; restarted, it is inside its next
\* batch and has just enqueued the first notification ever, with id 1.
C27_EnqueuedAfterDeathInBatch ==
    /\ lpc = "put"
    /\ putLog = <<1>>
    /\ 1 \in RowIds(notifRows)
    /\ identCur = 2

\* Whether dt is the configured text encoding of a token of DEVTOKLEN
\* bytes.
IsTokenText(dt) ==
    /\ dt.form = devtokfmt(BinTok("t1", DEVTOKLEN)).form
    /\ dt.declen = DEVTOKLEN

\* C28, as the specification states it: every record put on the feedback
\* queue, by the Feedback Agent or by the error handler of a Push Agent,
\* carries the configured text encoding of a token of 32 bytes.
C28_RecordsCarryTokens ==
    /\ call.f = "feedback" =>
          \A k \in 1 .. Len(call.put) : IsTokenText(call.put[k].devtok)
    /\ (call.f = "error" /\ ret.done /\ ret.put # Null) =>
          IsTokenText(ret.put.devtok)
====
